---- MODULE Spec2Model ----
(***************************************************************************)
(* mithrandir: a reverse proxy that forwards a request to its upstream    *)
(* only when the client IP is allow-listed or has a live session in the   *)
(* shared store.  The model follows handleRequest of the multi-app        *)
(* variant; every store call is a suspension point at which other         *)
(* requests and the passage of time may interleave.                       *)
(*                                                                         *)
(* Strings are sequences of one-character strings.                        *)
(*                                                                         *)
(* apps is the registry, store the Redis keyspace, req the handlers, and   *)
(* os the process: its environment and whether it boots, serves or has     *)
(* exited.                                                                 *)
(***************************************************************************)
EXTENDS Integers, Sequences, FiniteSets, TLC

VARIABLES apps, store, req, os

vars == <<apps, store, req, os>>

-----------------------------------------------------------------------------
(* Bounds *)

\* number of requests that may be in flight at the same time
NumReq == 2

Reqs == 1..NumReq

-----------------------------------------------------------------------------
(* strings package *)

HasPrefix(s, prefix) ==
    /\ Len(s) >= Len(prefix)
    /\ SubSeq(s, 1, Len(prefix)) = prefix

\* strings.TrimLeft(s, cutset): drops every leading character found in cutset
RECURSIVE TrimLeftCutset(_, _)
TrimLeftCutset(s, cutset) ==
    IF s # <<>> /\ \E i \in 1..Len(cutset) : cutset[i] = Head(s)
    THEN TrimLeftCutset(Tail(s), cutset)
    ELSE s

TrimPrefix(s, prefix) ==
    IF HasPrefix(s, prefix) THEN SubSeq(s, Len(prefix) + 1, Len(s)) ELSE s

HasSuffix(s, suffix) ==
    /\ Len(s) >= Len(suffix)
    /\ SubSeq(s, Len(s) - Len(suffix) + 1, Len(s)) = suffix

\* strings.Index for a one-character separator, 1-based; 0 when absent
Index(s, c) ==
    IF \E i \in 1..Len(s) : s[i] = c
    THEN CHOOSE i \in 1..Len(s) : s[i] = c /\ \A j \in 1..(i - 1) : s[j] # c
    ELSE 0

LastIndex(s, c) ==
    IF \E i \in 1..Len(s) : s[i] = c
    THEN CHOOSE i \in 1..Len(s) : s[i] = c /\ \A j \in (i + 1)..Len(s) : s[j] # c
    ELSE 0

Contains(s, substr) ==
    \E i \in 0..(Len(s) - Len(substr)) : SubSeq(s, i + 1, i + Len(substr)) = substr

Upper == <<"A", "B", "C", "D", "E", "F", "G", "H", "I", "J", "K", "L", "M",
           "N", "O", "P", "Q", "R", "S", "T", "U", "V", "W", "X", "Y", "Z">>
Lower == <<"a", "b", "c", "d", "e", "f", "g", "h", "i", "j", "k", "l", "m",
           "n", "o", "p", "q", "r", "s", "t", "u", "v", "w", "x", "y", "z">>

LowerChar(c) ==
    IF \E i \in 1..Len(Upper) : Upper[i] = c
    THEN Lower[CHOOSE i \in 1..Len(Upper) : Upper[i] = c]
    ELSE c

ToLower(s) == [i \in 1..Len(s) |-> LowerChar(s[i])]

\* the white space strings.TrimSpace removes
IsSpace(c) == c \in {" ", "\t", "\n", "\r"}

RECURSIVE TrimLeft(_)
TrimLeft(s) ==
    IF s # <<>> /\ IsSpace(Head(s)) THEN TrimLeft(Tail(s)) ELSE s

RECURSIVE TrimRight(_)
TrimRight(s) ==
    IF s # <<>> /\ IsSpace(s[Len(s)]) THEN TrimRight(SubSeq(s, 1, Len(s) - 1)) ELSE s

TrimSpace(s) == TrimRight(TrimLeft(s))

\* strings.Split(s, sep) for a one-character separator: a sequence of strings
RECURSIVE Split(_, _)
Split(s, sep) ==
    IF Index(s, sep) = 0
    THEN <<s>>
    ELSE <<SubSeq(s, 1, Index(s, sep) - 1)>>
            \o Split(SubSeq(s, Index(s, sep) + 1, Len(s)), sep)

\* the pattern handed to the compiler as written
KeepDots(s) == s

\* strings.ReplaceAll(s, ".", `\.`)
RECURSIVE EscapeDots(_)
EscapeDots(s) ==
    IF s = <<>> THEN <<>>
    ELSE IF Head(s) = "." THEN <<"\\", ".">> \o EscapeDots(Tail(s))
    ELSE <<Head(s)>> \o EscapeDots(Tail(s))

-----------------------------------------------------------------------------
(* regexp: the patterns the code compiles are literals, `\c` escapes and   *)
(* the any-character dot; MatchString is unanchored.                       *)

\* regexp.Compile: the pattern as a sequence of tokens
RECURSIVE Compile(_)
Compile(p) ==
    IF p = <<>> THEN <<>>
    ELSE IF Head(p) = "\\" /\ Len(p) >= 2
         THEN <<[lit |-> TRUE, ch |-> p[2]]>> \o Compile(SubSeq(p, 3, Len(p)))
    ELSE IF Head(p) = "."
         THEN <<[lit |-> FALSE, ch |-> "."]>> \o Compile(Tail(p))
    ELSE <<[lit |-> TRUE, ch |-> Head(p)]>> \o Compile(Tail(p))

MatchAt(regex, s, off) ==
    /\ off + Len(regex) <= Len(s)
    /\ \A i \in 1..Len(regex) : regex[i].lit => s[off + i] = regex[i].ch

MatchString(regex, s) == \E off \in 0..Len(s) : MatchAt(regex, s, off)

\* browserRegex = (?i)Mozilla|Chrome|Safari|Edge|Opera|Firefox
BrowserWords ==
    { <<"m", "o", "z", "i", "l", "l", "a">>,
      <<"c", "h", "r", "o", "m", "e">>,
      <<"s", "a", "f", "a", "r", "i">>,
      <<"e", "d", "g", "e">>,
      <<"o", "p", "e", "r", "a">>,
      <<"f", "i", "r", "e", "f", "o", "x">> }

browserRegex(userAgent) == \E w \in BrowserWords : Contains(ToLower(userAgent), w)

android == <<"a", "n", "d", "r", "o", "i", "d">>

\* the browser test without the exclusion of Android
IsBrowserIgnoringAndroid(userAgent) == browserRegex(userAgent)

IsBrowser(userAgent) ==
    browserRegex(userAgent) /\ ~Contains(ToLower(userAgent), android)

-----------------------------------------------------------------------------
(* Configuration: parseAppConfig and the registry *)

Digits == <<"0", "1", "2", "3", "4", "5", "6", "7", "8", "9">>

IsDigit(c) == \E i \in 1..Len(Digits) : Digits[i] = c

DigitVal(c) == (CHOOSE i \in 1..Len(Digits) : Digits[i] = c) - 1

RECURSIVE Atoi(_)
Atoi(s) == IF s = <<>> THEN 0 ELSE 10 * Atoi(SubSeq(s, 1, Len(s) - 1)) + DigitVal(s[Len(s)])

\* time.ParseDuration, for an optional sign, decimal digits and the unit "m";
\* one minute is one tick of the store's clock.  "0" needs no unit.
ParseDuration(s) ==
    LET neg  == s # <<>> /\ Head(s) = "-"
        body == IF s # <<>> /\ Head(s) \in {"-", "+"} THEN Tail(s) ELSE s
        num  == IF body # <<>> /\ body[Len(body)] = "m"
                THEN SubSeq(body, 1, Len(body) - 1) ELSE body
        ok   == /\ num # <<>>
                /\ \A i \in 1..Len(num) : IsDigit(num[i])
                /\ (body[Len(body)] = "m" \/ body = <<"0">>)
    IN  IF ok THEN [err |-> FALSE, d |-> IF neg THEN 0 - Atoi(num) ELSE Atoi(num)]
        ELSE [err |-> TRUE, d |-> 0]

\* strconv.ParseBool: the value, FALSE on error
ParseBool(s) ==
    s \in { <<"1">>, <<"t">>, <<"T">>, <<"T", "R", "U", "E">>,
            <<"t", "r", "u", "e">>, <<"T", "r", "u", "e">> }

\* the allow_ips loop of parseAppConfig: split, trim, escape the dots, compile
AllowIPsOf(allowIPsConfig) ==
    IF allowIPsConfig = <<>> THEN <<>>
    ELSE [i \in 1..Len(Split(allowIPsConfig, ",")) |->
            Compile(EscapeDots(TrimSpace(Split(allowIPsConfig, ",")[i])))]

\* config[key] of a Go map[string]string: "" for a key that is not there
Get(config, key) == IF key \in DOMAIN config THEN config[key] ELSE <<>>

\* parseAppConfig: [err |-> TRUE] or the AppConfig
parseAppConfig(config) ==
    IF Get(config, "hostname") = <<>> THEN [err |-> TRUE]
    ELSE IF Get(config, "upstream_url") = <<>> THEN [err |-> TRUE]
    ELSE IF ParseDuration(Get(config, "session_ttl")).err THEN [err |-> TRUE]
    ELSE [err              |-> FALSE,
          Hostname         |-> Get(config, "hostname"),
          SecretPathPrefix |-> Get(config, "secret_path"),
          UpstreamURL      |-> Get(config, "upstream_url"),
          AllowIPs         |-> AllowIPsOf(Get(config, "allow_ips")),
          SessionTTL       |-> ParseDuration(Get(config, "session_ttl")).d,
          AutoRenew        |-> ParseBool(Get(config, "auto_renew"))]

\* apps[app.Hostname] = app
Register(registry, app) ==
    [h \in DOMAIN registry \cup {app.Hostname} |->
        IF h = app.Hostname THEN app ELSE registry[h]]

\* loadAppsFromJSON over the decoded array: the registry, and whether the
\* process exits on an invalid record
RECURSIVE loadAppsFromJSON(_)
loadAppsFromJSON(appConfigs) ==
    IF appConfigs = <<>> THEN [exit |-> FALSE, apps |-> <<>>]
    ELSE LET rest == loadAppsFromJSON(SubSeq(appConfigs, 1, Len(appConfigs) - 1))
             app  == parseAppConfig(appConfigs[Len(appConfigs)])
         IN  IF rest.exit THEN rest
             ELSE IF app.err THEN [exit |-> TRUE, apps |-> rest.apps]
             ELSE [exit |-> FALSE, apps |-> Register(rest.apps, app)]

\* The environment of the process: APPS_CONFIG (set or not, valid JSON for
\* an array of string maps or not, and the array it decodes to), and the
\* numbered variables, APP[i][name] standing for APP_i_name.

\* os.Getenv(prefix + name) for prefix APP_i_
Getenv(environ, i, name) ==
    IF i <= Len(environ.APP) THEN Get(environ.APP[i], name) ELSE <<>>

\* getenv(prefix + name, fallback)
getenv(environ, i, name, fallback) ==
    IF Getenv(environ, i, name) # <<>> THEN Getenv(environ, i, name) ELSE fallback

\* the config map loadAppsFromEnv builds for APP_i_
EnvConfig(environ, i) ==
    [hostname     |-> Getenv(environ, i, "HOSTNAME"),
     secret_path  |-> getenv(environ, i, "SECRET_PATH",
                             <<"/", "s", "e", "c", "r", "e", "t", "_", "p", "a", "t", "h">>),
     upstream_url |-> Getenv(environ, i, "UPSTREAM_URL"),
     allow_ips    |-> Getenv(environ, i, "ALLOW_IPS"),
     session_ttl  |-> getenv(environ, i, "SESSION_TTL", <<"1", "0", "m">>),
     auto_renew   |-> getenv(environ, i, "AUTO_RENEW", <<"t", "r", "u", "e">>)]

\* the loop of loadAppsFromEnv from APP_i_ on, given the registry so far
RECURSIVE loadAppsFromEnvAt(_, _, _)
loadAppsFromEnvAt(environ, i, registry) ==
    IF Getenv(environ, i, "HOSTNAME") = <<>> THEN [exit |-> FALSE, apps |-> registry]
    ELSE LET app == parseAppConfig(EnvConfig(environ, i))
         IN  IF app.err THEN [exit |-> TRUE, apps |-> registry]
             ELSE loadAppsFromEnvAt(environ, i + 1, Register(registry, app))

loadAppsFromEnv(environ) == loadAppsFromEnvAt(environ, 1, <<>>)

\* loadAppConfigurations: JSON when APPS_CONFIG is set, else the numbered
\* variables, which must yield at least one application
loadAppConfigurations(environ) ==
    IF environ.APPS_CONFIG.set
    THEN IF ~environ.APPS_CONFIG.valid THEN [exit |-> TRUE, apps |-> <<>>]
         ELSE loadAppsFromJSON(environ.APPS_CONFIG.doc)
    ELSE LET l == loadAppsFromEnv(environ)
         IN  IF ~l.exit /\ DOMAIN l.apps = {} THEN [exit |-> TRUE, apps |-> <<>>]
             ELSE l

\* The configuration the gate is started with: two applications.
AppsConfig ==
    << [hostname     |-> <<"a">>,
        secret_path  |-> <<"/", "s">>,
        upstream_url |-> <<"u">>,
        allow_ips    |-> <<>>,
        session_ttl  |-> <<"2", "m">>,
        auto_renew   |-> <<"t", "r", "u", "e">>],
       [hostname     |-> <<"b">>,
        secret_path  |-> <<"/", "s", "/", "x">>,
        upstream_url |-> <<"v">>,
        allow_ips    |-> <<"9", ",", " ", "3", ".", "4">>,
        session_ttl  |-> <<"2", "m">>,
        auto_renew   |-> <<"f", "a", "l", "s", "e">>] >>

\* the environment of the serving process: APPS_CONFIG set to that array
Environ ==
    [APPS_CONFIG |-> [set |-> TRUE, valid |-> TRUE, doc |-> AppsConfig], APP |-> <<>>]

-----------------------------------------------------------------------------
(* Requests *)

\* the proxy headers clientIP consults, in priority order
headers ==
    << "CF-Connecting-IP", "True-Client-IP", "X-Real-IP", "X-Forwarded-For",
       "X-Cluster-Client-IP", "Fastly-Client-IP", "Forwarded" >>

HeaderNames == {headers[i] : i \in 1..Len(headers)}

\* net.SplitHostPort(addr): the host before the last colon, without the
\* brackets of an IPv6 literal; "" on error
SplitHostPort(addr) ==
    IF LastIndex(addr, ":") = 0 THEN <<>>
    ELSE IF Head(addr) = "["
         THEN IF Index(addr, "]") = LastIndex(addr, ":") - 1
              THEN SubSeq(addr, 2, Index(addr, "]") - 1)
              ELSE <<>>
    ELSE IF Index(addr, ":") # LastIndex(addr, ":") \/ Index(addr, "]") # 0
         THEN <<>>
    ELSE SubSeq(addr, 1, LastIndex(addr, ":") - 1)

\* clientIP taking the last element of a comma-separated header value
clientIPLastElement(r) ==
    IF \E i \in 1..Len(headers) : r.Header[headers[i]] # <<>>
    THEN LET i == CHOOSE i \in 1..Len(headers) :
                      /\ r.Header[headers[i]] # <<>>
                      /\ \A j \in 1..(i - 1) : r.Header[headers[j]] = <<>>
             parts == Split(r.Header[headers[i]], ",")
         IN  TrimSpace(parts[Len(parts)])
    ELSE SplitHostPort(r.RemoteAddr)

clientIP(r) ==
    IF \E i \in 1..Len(headers) : r.Header[headers[i]] # <<>>
    THEN LET i == CHOOSE i \in 1..Len(headers) :
                      /\ r.Header[headers[i]] # <<>>
                      /\ \A j \in 1..(i - 1) : r.Header[headers[j]] = <<>>
         IN  TrimSpace(Split(r.Header[headers[i]], ",")[1])
    ELSE SplitHostPort(r.RemoteAddr)

NoHeaders == [h \in HeaderNames |-> <<>>]

\* Who sends the request: through a proxy that sets X-Forwarded-For, or directly.
Senders ==
    { [Header     |-> [NoHeaders EXCEPT !["X-Forwarded-For"] = <<"1", ".", "2", ",", " ", "8">>],
       RemoteAddr |-> <<"7", ":", "1">>],
      [Header     |-> NoHeaders,
       RemoteAddr |-> <<"3", ".", "4", ":", "5">>] }

Hosts == { <<"a">>, <<"b", ":", "8">>, <<"c">> }

\* URL.Path with the URL.RawPath the server derives for it
Paths ==
    { [Path |-> <<"/", "s", "/", "x">>, RawPath |-> <<>>],
      [Path |-> <<"/", "s", "x">>,      RawPath |-> <<>>],
      [Path |-> <<"/", "x">>,           RawPath |-> <<>>] }

Chrome == <<"C", "h", "r", "o", "m", "e">>
okhttp == <<"o", "k", "h", "t", "t", "p">>
MozillaAndroid ==
    <<"M", "o", "z", "i", "l", "l", "a", " ", "A", "n", "d", "r", "o", "i", "d">>

\* a desktop browser and a native client
UserAgents == {Chrome, okhttp}

ViaProxy == CHOOSE s \in Senders : s.Header # NoHeaders

\* Requests that are rarer on the wire: a browser on Android visiting the
\* secret path, a request target without a path, and a percent-encoded path.
EdgeRequests ==
    { [Host |-> h, Header |-> ViaProxy.Header, RemoteAddr |-> ViaProxy.RemoteAddr,
       Path |-> <<"/", "s", "/", "x">>, RawPath |-> <<>>, UserAgent |-> MozillaAndroid] :
        h \in {<<"a">>, <<"b", ":", "8">>} }
    \cup
    { [Host |-> <<"a">>, Header |-> ViaProxy.Header, RemoteAddr |-> ViaProxy.RemoteAddr,
       Path |-> <<>>, RawPath |-> <<>>, UserAgent |-> Chrome] }
    \cup
    \* the request target /s/%78: the server keeps the encoded form in RawPath
    { [Host |-> <<"a">>, Header |-> ViaProxy.Header, RemoteAddr |-> ViaProxy.RemoteAddr,
       Path |-> <<"/", "s", "/", "x">>, RawPath |-> <<"/", "s", "/", "%", "7", "8">>,
       UserAgent |-> okhttp] }

Requests ==
    { [Host |-> h, Header |-> s.Header, RemoteAddr |-> s.RemoteAddr,
       Path |-> p.Path, RawPath |-> p.RawPath, UserAgent |-> ua] :
        h \in Hosts, s \in Senders, p \in Paths, ua \in UserAgents }
    \cup EdgeRequests

StatusFound == 302
StatusForbidden == 403
StatusNotFound == 404
StatusInternalServerError == 500

\* the key of the single-application variant: "ip:" + ip
cacheKeyWithoutApp(hostname, ip) == <<"i", "p", ":">> \o ip

\* cacheKey := fmt.Sprintf("app:%s:ip:%s", hostname, ip)
cacheKey(hostname, ip) ==
    <<"a", "p", "p", ":">> \o hostname \o <<":", "i", "p", ":">> \o ip

\* the hostname folded to lower case before the lookup
HostnameOfFolded(host) ==
    ToLower(IF Index(host, ":") # 0 THEN SubSeq(host, 1, Index(host, ":") - 1) ELSE host)

\* hostname := request.Host with the port removed
HostnameOf(host) ==
    IF Index(host, ":") # 0 THEN SubSeq(host, 1, Index(host, ":") - 1) ELSE host

\* the allow-list loop stopping after the first pattern
isAllowedIPFirstOnly(app, ip) ==
    app.AllowIPs # <<>> /\ MatchString(app.AllowIPs[1], ip)

\* the allow-list loop of handleRequest
isAllowedIP(app, ip) ==
    \E i \in 1..Len(app.AllowIPs) : MatchString(app.AllowIPs[i], ip)

-----------------------------------------------------------------------------
(* net/http.Redirect: the Location it sends for a target without scheme   *)

RECURSIVE Join(_, _)
Join(elems, sep) ==
    IF elems = <<>> THEN <<>>
    ELSE IF Len(elems) = 1 THEN elems[1]
    ELSE elems[1] \o <<sep>> \o Join(Tail(elems), sep)

\* the elements path.Clean keeps, given those kept so far
RECURSIVE CleanElems(_, _, _)
CleanElems(elems, kept, rooted) ==
    IF elems = <<>> THEN kept
    ELSE LET e == Head(elems)
         IN  IF e = <<>> \/ e = <<".">>
             THEN CleanElems(Tail(elems), kept, rooted)
             ELSE IF e = <<".", ".">>
             THEN IF kept # <<>> /\ kept[Len(kept)] # <<".", ".">>
                  THEN CleanElems(Tail(elems), SubSeq(kept, 1, Len(kept) - 1), rooted)
                  ELSE IF rooted
                  THEN CleanElems(Tail(elems), kept, rooted)
                  ELSE CleanElems(Tail(elems), Append(kept, e), rooted)
             ELSE CleanElems(Tail(elems), Append(kept, e), rooted)

\* path.Clean
Clean(p) ==
    LET rooted == p # <<>> /\ Head(p) = "/"
        out    == (IF rooted THEN <<"/">> ELSE <<>>)
                     \o Join(CleanElems(Split(p, "/"), <<>>, rooted), "/")
    IN  IF out = <<>> THEN <<".">> ELSE out

\* the Host url.Parse finds in a target without scheme: the authority after "//"
UrlHost(url) ==
    IF HasPrefix(url, <<"/", "/">>) /\ ~HasPrefix(url, <<"/", "/", "/">>)
    THEN Split(SubSeq(url, 3, Len(url)), "/")[1]
    ELSE <<>>

\* path.Split(p): the directory part, up to and including the last slash
Dir(p) == SubSeq(p, 1, LastIndex(p, "/"))

\* http.Redirect(w, r, url, code): the Location header, r.URL.Path = oldpath
Redirect(url, oldpath) ==
    IF UrlHost(url) # <<>> THEN url
    ELSE LET abs      == IF url = <<>> \/ Head(url) # "/"
                         THEN Dir(IF oldpath = <<>> THEN <<"/">> ELSE oldpath) \o url
                         ELSE url
             q        == Index(abs, "?")
             pth      == IF q # 0 THEN SubSeq(abs, 1, q - 1) ELSE abs
             query    == IF q # 0 THEN SubSeq(abs, q, Len(abs)) ELSE <<>>
             trailing == HasSuffix(pth, <<"/">>)
             cleaned  == Clean(pth)
         IN  (IF trailing /\ ~HasSuffix(cleaned, <<"/">>)
              THEN cleaned \o <<"/">> ELSE cleaned) \o query

-----------------------------------------------------------------------------
(* handleRequest *)

\* a handler that has not received a request yet
Idle ==
    [pc |-> "idle", request |-> <<>>, hostname |-> <<>>, ip |-> <<>>,
     cacheKey |-> <<>>, ipExistsInCache |-> 0, ipExistsCheckError |-> FALSE,
     calls |-> <<>>, status |-> 0, Location |-> <<>>, forwarded |-> FALSE,
     upstream |-> <<>>, Path |-> <<>>, RawPath |-> <<>>]

\* http.Error(responseWriter, ..., status); return
Error(rec, status) == [rec EXCEPT !.pc = "done", !.status = status]

\* the not-found branch answering with the status of the deny branch
NotFoundAsForbidden(rec) == Error(rec, StatusForbidden)

\* no application for the hostname: http.Error(..., http.StatusNotFound)
NotFound(rec) == Error(rec, StatusNotFound)

\* the forward with the path rewrite moved out of the session branch
ForwardRewritten(rec, app) ==
    [rec EXCEPT !.pc = "done", !.forwarded = TRUE, !.upstream = app.UpstreamURL,
                !.Path = IF TrimPrefix(rec.Path, app.SecretPathPrefix) = <<>>
                         THEN <<"/">>
                         ELSE TrimPrefix(rec.Path, app.SecretPathPrefix)]

\* proxy.ServeHTTP(responseWriter, request) for the application's upstream
Forward(rec, app) ==
    [rec EXCEPT !.pc = "done", !.forwarded = TRUE, !.upstream = app.UpstreamURL]

\* the rewrite without the default for an empty path
RewriteNoRootDefault(rec, app) ==
    [rec EXCEPT !.Path = TrimPrefix(rec.Path, app.SecretPathPrefix),
                !.RawPath = IF rec.RawPath # <<>>
                            THEN TrimPrefix(rec.RawPath, app.SecretPathPrefix)
                            ELSE TrimPrefix(rec.Path, app.SecretPathPrefix)]

\* the rewrite giving an empty raw path the root instead of the path
RewriteRawDefaultsToRoot(rec, app) ==
    LET path1 == TrimPrefix(rec.Path, app.SecretPathPrefix)
        raw1  == IF rec.RawPath # <<>>
                 THEN TrimPrefix(rec.RawPath, app.SecretPathPrefix)
                 ELSE rec.RawPath
    IN  [rec EXCEPT !.Path = IF path1 = <<>> THEN <<"/">> ELSE path1,
                    !.RawPath = IF raw1 = <<>> THEN <<"/">> ELSE raw1]

\* Strip secretPathPrefix from URL.Path and URL.RawPath
Rewrite(rec, app) ==
    LET path1 == TrimPrefix(rec.Path, app.SecretPathPrefix)
        raw1  == IF rec.RawPath # <<>>
                 THEN TrimPrefix(rec.RawPath, app.SecretPathPrefix)
                 ELSE rec.RawPath
        path2 == IF path1 = <<>> THEN <<"/">> ELSE path1
        raw2  == IF raw1 = <<>> THEN path2 ELSE raw1
    IN  [rec EXCEPT !.Path = path2, !.RawPath = raw2]

\* the deny condition without its test for a missing session
DeniedOnErrorOnly(rec) == rec.ipExistsCheckError

\* the deny condition letting a request through when the store is unreachable
DeniedUnlessError(rec) == ~rec.ipExistsCheckError /\ rec.ipExistsInCache = 0

\* the deny condition: the check failed or found no session
Denied(rec) == rec.ipExistsCheckError \/ rec.ipExistsInCache = 0

\* the handler answering 500 when the existence query failed
DenyCheckFailingOnError(rec, app) ==
    IF rec.ipExistsCheckError THEN Error(rec, StatusInternalServerError)
    ELSE IF Denied(rec) THEN Error(rec, StatusForbidden)
    ELSE IF app.AutoRenew THEN [rec EXCEPT !.pc = "expire"]
    ELSE Forward(Rewrite(rec, app), app)

\* the handler redirecting a browser off the secret path on every visit
DenyCheckRedirecting(rec, app) ==
    IF Denied(rec) THEN Error(rec, StatusForbidden)
    ELSE IF IsBrowser(rec.request.UserAgent) /\ HasPrefix(rec.Path, app.SecretPathPrefix)
    THEN [rec EXCEPT !.pc = "done", !.status = StatusFound,
                     !.Location = Redirect(Rewrite(rec, app).Path, rec.Path)]
    ELSE IF app.AutoRenew THEN [rec EXCEPT !.pc = "expire"]
    ELSE Forward(Rewrite(rec, app), app)

\* the handler renewing the session whatever auto_renew says
DenyCheckAlwaysRenew(rec, app) ==
    IF Denied(rec) THEN Error(rec, StatusForbidden)
    ELSE [rec EXCEPT !.pc = "expire"]

\* the handler without its auto-renew step
DenyCheckNoRenew(rec, app) ==
    IF Denied(rec) THEN Error(rec, StatusForbidden)
    ELSE Forward(Rewrite(rec, app), app)

\* from the deny check to the next store call or the end of the handler
DenyCheck(rec, app) ==
    IF Denied(rec) THEN Error(rec, StatusForbidden)
    ELSE IF app.AutoRenew THEN [rec EXCEPT !.pc = "expire"]
    ELSE Forward(Rewrite(rec, app), app)

\* the browser branch redirecting to the stripped path even when it is empty
AfterGrantNoRootDefault(rec, app) ==
    IF IsBrowser(rec.request.UserAgent)
    THEN [rec EXCEPT !.pc = "done", !.status = StatusFound,
                     !.Location = Redirect(TrimPrefix(rec.Path, app.SecretPathPrefix),
                                           rec.Path)]
    ELSE DenyCheck(rec, app)

\* the browser branch after a successful grant
AfterGrant(rec, app) ==
    IF IsBrowser(rec.request.UserAgent)
    THEN LET newPath == TrimPrefix(rec.Path, app.SecretPathPrefix)
         IN  [rec EXCEPT !.pc = "done", !.status = StatusFound,
                         !.Location = Redirect(IF newPath = <<>> THEN <<"/">> ELSE newPath,
                                               rec.Path)]
    ELSE DenyCheck(rec, app)

\* the grant going on to the browser branch although the store refused the SET
AfterSetIgnoringError(rec, app, err) == AfterGrant(rec, app)

\* the grant recording the session it has just written as found
AfterSetMarkingSession(rec, app, err) ==
    IF err THEN Error(rec, StatusInternalServerError)
    ELSE AfterGrant([rec EXCEPT !.ipExistsInCache = 1], app)

\* err := redisClient.Set(...).Err(); if err != nil { 500; return }
AfterSet(rec, app, err) ==
    IF err THEN Error(rec, StatusInternalServerError) ELSE AfterGrant(rec, app)

\* the renew step starting the session check over when the store refuses it
AfterExpireRechecking(rec, app, err) ==
    IF err THEN [rec EXCEPT !.pc = "exists", !.calls = <<>>,
                            !.ipExistsInCache = 0, !.ipExistsCheckError = FALSE]
    ELSE Forward(Rewrite(rec, app), app)

\* the renew step answering 500 when the store refuses the EXPIRE
AfterExpireFailing(rec, app, err) ==
    IF err THEN Error(rec, StatusInternalServerError)
    ELSE Forward(Rewrite(rec, app), app)

\* _ = redisClient.Expire(...).Err(); then the rewrite and the forward
AfterExpire(rec, app, err) == Forward(Rewrite(rec, app), app)

\* the grant condition refusing to write when the existence query failed
GrantUnlessError(rec, app) ==
    /\ ~rec.ipExistsCheckError
    /\ rec.ipExistsInCache = 0
    /\ HasPrefix(rec.Path, app.SecretPathPrefix)

\* the grant condition without its test that no session was seen
GrantOnEveryVisit(rec, app) == HasPrefix(rec.Path, app.SecretPathPrefix)

\* the grant condition without its test of the path
GrantOnAnyPath(rec, app) == rec.ipExistsInCache = 0

\* the grant condition: no session seen and the path is under the secret prefix
Grant(rec, app) ==
    rec.ipExistsInCache = 0 /\ HasPrefix(rec.Path, app.SecretPathPrefix)

\* a lookup that leaves an empty entry behind for a hostname it did not find
AfterLookupInserting(registry, hostname) ==
    IF hostname \in DOMAIN registry THEN registry
    ELSE [h \in DOMAIN registry \cup {hostname} |->
             IF h = hostname
             THEN [err |-> FALSE, Hostname |-> <<>>, SecretPathPrefix |-> <<>>,
                   UpstreamURL |-> <<>>, AllowIPs |-> <<>>, SessionTTL |-> 0,
                   AutoRenew |-> FALSE]
             ELSE registry[h]]

\* the registry after app, exists := apps[hostname]: reading a map adds nothing
AfterLookup(registry, hostname) == registry

\* A request out of inputs arrives: registry lookup, client IP, allow-list.
ReceiveFrom(r, inputs) ==
    /\ os.pc = "serve"
    /\ req[r].pc = "idle"
    /\ \A o \in Reqs : req[o].pc # "done"
    /\ \E q \in inputs :
         /\ LET hostname == HostnameOf(q.Host)
                rec0     == [Idle EXCEPT !.request = q, !.hostname = hostname,
                                         !.Path = q.Path, !.RawPath = q.RawPath]
            IN  IF hostname \notin DOMAIN apps
                THEN req' = [req EXCEPT ![r] = NotFound(rec0)]
                ELSE LET app == apps[hostname]
                         ip  == clientIP(q)
                         rec == [rec0 EXCEPT !.ip = ip]
                     IN  IF isAllowedIP(app, ip)
                         THEN req' = [req EXCEPT ![r] = Forward(rec, app)]
                         ELSE req' = [req EXCEPT ![r] =
                                         [rec EXCEPT !.pc = "exists",
                                                     !.cacheKey = cacheKey(hostname, ip)]]
         /\ apps' = AfterLookup(apps, HostnameOf(q.Host))
    /\ UNCHANGED <<store, os>>

Receive(r) == ReceiveFrom(r, Requests)

\* The store maps each live key to its remaining lifetime in minutes and, for
\* the record, to the (hostname, ip) of the request that last SET it.

\* remaining lifetime of a key in the store, 0 when the key is absent
TTL(st, key) == IF key \in DOMAIN st THEN st[key].ttl ELSE 0

\* who created the session under a key, <<>> when the key is absent
Owner(st, key) == IF key \in DOMAIN st THEN st[key].by ELSE <<>>

\* the store after SET key "1" EX ttl NX: a live key is left as it is
StoreSetIfAbsent(st, key, ttl, by) ==
    IF key \in DOMAIN st THEN st
    ELSE [k \in DOMAIN st \cup {key} |-> IF k = key THEN [ttl |-> ttl, by |-> by] ELSE st[k]]

\* the store after SET key "1" EX ttl
StoreSet(st, key, ttl, by) ==
    [k \in DOMAIN st \cup {key} |-> IF k = key THEN [ttl |-> ttl, by |-> by] ELSE st[k]]

\* the store after a refresh that writes the key when it is missing
StoreExpireCreating(st, key, ttl) ==
    [k \in DOMAIN st \cup {key} |->
        IF k = key
        THEN [ttl |-> ttl, by |-> IF key \in DOMAIN st THEN st[key].by ELSE <<key>>]
        ELSE st[k]]

\* the store after DEL key
StoreDel(st, key, ttl) == [k \in DOMAIN st \ {key} |-> st[k]]

\* the store after EXPIRE key ttl: a missing key stays missing
StoreExpire(st, key, ttl) ==
    IF key \in DOMAIN st THEN [st EXCEPT ![key].ttl = ttl] ELSE st

\* the existence query answered without asking the store
FoundNever(st, key, err) == 0

\* the count redisClient.Exists(ctx, cacheKey).Result() returns: 0 on error
Found(st, key, err) == IF ~err /\ key \in DOMAIN st THEN 1 ELSE 0

\* the handler's log of store calls: operation, arguments, whether it failed,
\* and whose session, if any, was live under the key when the call arrived
Call(rec, op, ttl, err) ==
    Append(rec.calls,
           [op |-> op, key |-> rec.cacheKey, ttl |-> ttl, err |-> err,
            owner |-> Owner(store, rec.cacheKey)])

\* redisClient.Exists(ctx, cacheKey).Result() returns; the handler runs on to
\* its next store call or to its response
Exists(r) ==
    /\ req[r].pc = "exists"
    /\ \A o \in Reqs : req[o].pc # "done"
    /\ \E err \in BOOLEAN :
         LET app == apps[req[r].hostname]
             rec == [req[r] EXCEPT
                        !.calls = Call(req[r], "exists", 0, err),
                        !.ipExistsCheckError = err,
                        !.ipExistsInCache = Found(store, req[r].cacheKey, err)]
         IN  req' = [req EXCEPT ![r] =
                        IF Grant(rec, app) THEN [rec EXCEPT !.pc = "set"]
                        ELSE DenyCheck(rec, app)]
    /\ UNCHANGED <<apps, store, os>>

\* redisClient.Set(ctx, cacheKey, "1", app.SessionTTL).Err() returns
Set(r) ==
    /\ req[r].pc = "set"
    /\ \A o \in Reqs : req[o].pc # "done"
    /\ \E err \in BOOLEAN :
         LET app == apps[req[r].hostname]
             st  == IF err THEN store
                    ELSE StoreSet(store, req[r].cacheKey, app.SessionTTL,
                                  <<req[r].hostname, req[r].ip>>)
             rec == [req[r] EXCEPT
                        !.calls = Call(req[r], "set", app.SessionTTL, err)]
         IN  /\ store' = st
             /\ req' = [req EXCEPT ![r] = AfterSet(rec, app, err)]
    /\ UNCHANGED <<apps, os>>

\* redisClient.Expire(ctx, cacheKey, app.SessionTTL).Err() returns; the error
\* is discarded
Expire(r) ==
    /\ req[r].pc = "expire"
    /\ \A o \in Reqs : req[o].pc # "done"
    /\ \E err \in BOOLEAN :
         LET app == apps[req[r].hostname]
             st  == IF err THEN store
                    ELSE StoreExpire(store, req[r].cacheKey, app.SessionTTL)
             rec == [req[r] EXCEPT
                        !.calls = Call(req[r], "expire", app.SessionTTL, err)]
         IN  /\ store' = st
             /\ req' = [req EXCEPT ![r] = AfterExpire(rec, app, err)]
    /\ UNCHANGED <<apps, os>>

\* One minute passes in the store: every TTL runs down, expired keys vanish.
Tick ==
    /\ DOMAIN store # {}
    /\ \A o \in Reqs : req[o].pc # "done"
    /\ store' = [k \in {k \in DOMAIN store : store[k].ttl > 1} |->
                    [store[k] EXCEPT !.ttl = @ - 1]]
    /\ UNCHANGED <<apps, req, os>>

\* The response has been written; the handler is free for the next request.
Done(r) ==
    /\ req[r].pc = "done"
    /\ req' = [req EXCEPT ![r] = Idle]
    /\ UNCHANGED <<apps, store, os>>

\* the process after main has loaded the registry and reached ListenAndServe
Init ==
    /\ os = [environ |-> Environ, pc |-> "serve"]
    /\ apps = loadAppConfigurations(Environ).apps
    /\ store = <<>>
    /\ req = [r \in Reqs |-> Idle]

Next ==
    \/ \E r \in Reqs : Receive(r)
    \/ \E r \in Reqs : Exists(r)
    \/ \E r \in Reqs : Set(r)
    \/ \E r \in Reqs : Expire(r)
    \/ \E r \in Reqs : Done(r)
    \/ Tick

Spec == Init /\ [][Next]_vars

-----------------------------------------------------------------------------
(* Several gate instances behind a load balancer, sharing the store: the   *)
(* balancer sends the unlock links to instance 1 and everything else to    *)
(* the other instances.                                                    *)

\* the request is for the secret path of a configured application
Unlocking(q) ==
    /\ HostnameOf(q.Host) \in DOMAIN apps
    /\ HasPrefix(q.Path, apps[HostnameOf(q.Host)].SecretPathPrefix)

ReceiveUnlock == ReceiveFrom(1, {q \in Requests : Unlocking(q)})

ReceiveOther(r) == r # 1 /\ ReceiveFrom(r, {q \in Requests : ~Unlocking(q)})

NextInstances ==
    \/ ReceiveUnlock
    \/ \E r \in Reqs : ReceiveOther(r)
    \/ \E r \in Reqs : Exists(r)
    \/ \E r \in Reqs : Set(r)
    \/ \E r \in Reqs : Expire(r)
    \/ \E r \in Reqs : Done(r)
    \/ Tick

SpecInstances == Init /\ [][NextInstances]_vars

-----------------------------------------------------------------------------
(* The gate with store calls that return: every call that is awaited comes *)
(* back, with a value or an error, and every decided response is written.  *)
(* The traffic is one client behind the proxy and one native client on an  *)
(* allow-listed address.                                                   *)

ReturningRequests ==
    { q \in Requests :
        \/ /\ q.Header = ViaProxy.Header
           /\ q.Path \in {<<"/", "s", "/", "x">>, <<"/", "x">>}
           /\ q.RawPath = <<>>
           /\ q.UserAgent \in UserAgents
        \/ /\ q.Header = NoHeaders
           /\ q.Host = <<"b", ":", "8">>
           /\ q.Path = <<"/", "x">>
           /\ q.UserAgent = okhttp }

ReceiveReturning(r) == ReceiveFrom(r, ReturningRequests)

NextReturning ==
    \/ \E r \in Reqs : ReceiveReturning(r)
    \/ \E r \in Reqs : Exists(r)
    \/ \E r \in Reqs : Set(r)
    \/ \E r \in Reqs : Expire(r)
    \/ \E r \in Reqs : Done(r)
    \/ Tick

\* the handler waits for a store call, and no response is being written
Awaited(r) ==
    /\ req[r].pc \in {"exists", "set", "expire"}
    /\ \A o \in Reqs : req[o].pc # "done"

\* the store call the handler waits for returns: an Exists(r), Set(r) or
\* Expire(r) step, the only steps that move a handler on from a store call
Returned(r) ==
    /\ req[r].pc \in {"exists", "set", "expire"}
    /\ req'[r].pc # req[r].pc

\* Strong fairness of the return of the awaited store call, written with the
\* enabling condition of the step, and weak fairness of writing the response.
Returns ==
    \A r \in Reqs :
        /\ []<>Awaited(r) => []<><<Returned(r)>>_vars
        /\ WF_vars(Done(r))

SpecReturning == Init /\ [][NextReturning]_vars /\ Returns

-----------------------------------------------------------------------------
(* clientIP on its own: one request at a time, over header sets that put   *)
(* values into up to two of the seven headers.                             *)

\* header values: one address, a list, padded with blanks, an empty first
\* element, padded with a tab, blanks only
HeaderValues ==
    { <<"1", ".", "2">>,
      <<"1", ".", "2", ",", " ", "8">>,
      <<" ", "5", " ", ",", "6">>,
      <<",", "6">>,
      <<"\t", "7", " ">>,
      <<" ">> }

HeaderSets ==
    { [h \in HeaderNames |-> IF h = h1 THEN v1 ELSE IF h = h2 THEN v2 ELSE <<>>] :
        h1 \in HeaderNames, h2 \in HeaderNames,
        v1 \in HeaderValues \cup {<<>>}, v2 \in HeaderValues \cup {<<>>} }

\* the peer address the server records: IPv4 or IPv6 with the port
RemoteAddrs ==
    { <<"3", ".", "4", ":", "5">>, <<"[", ":", ":", "1", "]", ":", "5">> }

ClientIPRequests ==
    { [Host |-> <<"a">>, Header |-> hs, RemoteAddr |-> ra,
       Path |-> <<"/", "x">>, RawPath |-> <<>>, UserAgent |-> okhttp] :
        hs \in HeaderSets, ra \in RemoteAddrs }

\* ip := clientIP(request), and nothing else of the handler
Resolve(r) ==
    /\ \A o \in Reqs : req[o].pc = "idle"
    /\ \E q \in ClientIPRequests :
          req' = [req EXCEPT ![r] =
                     [Idle EXCEPT !.pc = "done", !.request = q, !.ip = clientIP(q)]]
    /\ UNCHANGED <<apps, store, os>>

NextClientIP ==
    \/ \E r \in Reqs : Resolve(r)
    \/ \E r \in Reqs : Done(r)

SpecClientIP == Init /\ [][NextClientIP]_vars

-----------------------------------------------------------------------------
(* Routing on its own: hostname lookup, client IP and allow-list over a    *)
(* registry with look-alike hostnames and allow patterns; the store is     *)
(* not reached, a request that needs it waits.                             *)

RoutingConfig ==
    << [hostname |-> <<"a">>, secret_path |-> <<"/", "s">>, upstream_url |-> <<"u">>,
        allow_ips |-> <<"1", ".", "2">>, session_ttl |-> <<"2", "m">>],
       [hostname |-> <<"b", "c">>, secret_path |-> <<"/", "s">>, upstream_url |-> <<"v">>,
        allow_ips |-> <<"1", ".", "0", "/", "8", ",", " ", "3", "0">>,
        session_ttl |-> <<"2", "m">>],
       [hostname |-> <<"*">>, secret_path |-> <<"/", "s">>, upstream_url |-> <<"w">>,
        session_ttl |-> <<"2", "m">>],
       \* a list that ends in a comma
       [hostname |-> <<"e">>, secret_path |-> <<"/", "s">>, upstream_url |-> <<"y">>,
        allow_ips |-> <<"3", "1", ",">>, session_ttl |-> <<"2", "m">>] >>

RoutingEnviron ==
    [APPS_CONFIG |-> [set |-> TRUE, valid |-> TRUE, doc |-> RoutingConfig], APP |-> <<>>]

RoutingHosts ==
    { <<"a">>, <<"a", ":", "8">>, <<"a", ":", "8", ":", "9">>, <<"A">>, <<"A", ":", "8">>,
      <<"b", "c">>, <<"b", "c", ":", "8">>, <<"B", "c">>, <<"b">>, <<"c">>,
      <<"a", "b", "c">>, <<"*">>, <<"d">>, <<":", "8">>, <<"e">> }

RoutingIPs ==
    { <<"1", ".", "2">>, <<"1", ".", "2", "0">>, <<"3", "1", ".", "2">>,
      <<"1", "0", "2">>, <<"1", ".", "0", ".", "0", ".", "1">>,
      <<"1", ".", "0", "/", "8">>, <<"1", "3", "0">>, <<"3", ".", "0">> }

RoutingRequests ==
    { [Host |-> h, Header |-> [NoHeaders EXCEPT !["X-Real-IP"] = ip],
       RemoteAddr |-> <<"7", ":", "1">>,
       Path |-> <<"/", "x">>, RawPath |-> <<>>, UserAgent |-> okhttp] :
        h \in RoutingHosts, ip \in RoutingIPs }

ReceiveRouted(r) == ReceiveFrom(r, RoutingRequests)

InitRouting ==
    /\ os = [environ |-> RoutingEnviron, pc |-> "serve"]
    /\ apps = loadAppConfigurations(RoutingEnviron).apps
    /\ store = <<>>
    /\ req = [r \in Reqs |-> Idle]

NextRouting ==
    \/ \E r \in Reqs : ReceiveRouted(r)
    \/ \E r \in Reqs : Done(r)

SpecRouting == InitRouting /\ [][NextRouting]_vars

-----------------------------------------------------------------------------
(* Startup: main loads the registry from the environment, then pings the   *)
(* store, and serves or exits.                                             *)

\* stands for a key that a record does not have
Unset == <<"unset">>

\* the map with the keys that are set
Restrict(m) == [k \in {k \in DOMAIN m : m[k] # Unset} |-> m[k]]

SecretPaths == {Unset, <<"/", "s">>, <<>>}

SessionTTLs == {Unset, <<"2", "m">>, <<"0">>, <<"-", "2", "m">>, <<"x">>}

AutoRenews == {Unset, <<"t", "r", "u", "e">>, <<"f", "a", "l", "s", "e">>}

\* objects of the APPS_CONFIG array
JSONRecords ==
    { Restrict([hostname |-> <<"a">>, upstream_url |-> <<"u">>,
                secret_path |-> sp, session_ttl |-> t, auto_renew |-> ar]) :
        sp \in SecretPaths, t \in SessionTTLs, ar \in AutoRenews }
    \cup
    { [hostname |-> <<"a">>], [upstream_url |-> <<"u">>] }

\* the variables of one APP_i_ prefix
NumberedRecords ==
    { Restrict([HOSTNAME |-> <<"a">>, UPSTREAM_URL |-> <<"u">>,
                SECRET_PATH |-> sp, SESSION_TTL |-> t, AUTO_RENEW |-> ar]) :
        sp \in SecretPaths, t \in SessionTTLs, ar \in AutoRenews }
    \cup
    { [HOSTNAME |-> <<"a">>], [UPSTREAM_URL |-> <<"u">>] }

NoJSON == [set |-> FALSE, valid |-> FALSE, doc |-> <<>>]

Environments ==
    { [APPS_CONFIG |-> [set |-> TRUE, valid |-> TRUE, doc |-> <<rec>>], APP |-> <<>>] :
        rec \in JSONRecords }
    \cup
    \* a second object for the same hostname, or an invalid one
    { [APPS_CONFIG |-> [set |-> TRUE, valid |-> TRUE, doc |-> <<AppsConfig[1], rec>>],
       APP |-> <<>>] :
        rec \in {[hostname |-> <<"a">>, upstream_url |-> <<"v">>, session_ttl |-> <<"2", "m">>],
                 [hostname |-> <<"b">>]} }
    \cup
    \* APPS_CONFIG that is not JSON, the empty array, JSON next to numbered variables
    { [APPS_CONFIG |-> [set |-> TRUE, valid |-> FALSE, doc |-> <<>>], APP |-> <<>>],
      [APPS_CONFIG |-> [set |-> TRUE, valid |-> TRUE, doc |-> <<>>], APP |-> <<>>],
      [APPS_CONFIG |-> [set |-> TRUE, valid |-> TRUE, doc |-> AppsConfig],
       APP |-> <<[HOSTNAME |-> <<"c">>, UPSTREAM_URL |-> <<"u">>]>>] }
    \cup
    { [APPS_CONFIG |-> NoJSON, APP |-> <<rec>>] : rec \in NumberedRecords }
    \cup
    \* two numbered applications, a gap in the numbering, nothing at all
    { [APPS_CONFIG |-> NoJSON,
       APP |-> <<[HOSTNAME |-> <<"a">>, UPSTREAM_URL |-> <<"u">>],
                 [HOSTNAME |-> <<"b">>, UPSTREAM_URL |-> <<"v">>, AUTO_RENEW |-> <<"0">>]>>],
      [APPS_CONFIG |-> NoJSON,
       APP |-> << <<>>, [HOSTNAME |-> <<"b">>, UPSTREAM_URL |-> <<"v">>] >>],
      [APPS_CONFIG |-> NoJSON, APP |-> <<>>] }

\* main up to http.ListenAndServe: load the registry, ping the store
main ==
    /\ os.pc = "main"
    /\ \E pingFailed \in BOOLEAN :
          LET l == loadAppConfigurations(os.environ)
          IN  /\ apps' = l.apps
              /\ os' = [os EXCEPT !.pc = IF l.exit \/ pingFailed THEN "exit" ELSE "serve"]
    /\ UNCHANGED <<store, req>>

InitConfig ==
    /\ os \in {[environ |-> e, pc |-> "main"] : e \in Environments}
    /\ apps = <<>>
    /\ store = <<>>
    /\ req = [r \in Reqs |-> Idle]

NextConfig == main

SpecConfig == InitConfig /\ [][NextConfig]_vars

-----------------------------------------------------------------------------
(* Properties *)

\* the handlers that hold a request: in flight or just answered
Active == {r \in Reqs : req[r].pc # "idle"}

Answered == {r \in Reqs : req[r].pc = "done"}

\* what the request asks for, read off the request itself
WantHost(r) == HostnameOf(req[r].request.Host)
WantIP(r) == clientIP(req[r].request)
Mapped(r) == WantHost(r) \in DOMAIN apps
Policy(r) == apps[WantHost(r)]
AllowListed(r) == Mapped(r) /\ isAllowedIP(Policy(r), WantIP(r))
OnSecretPath(r) == HasPrefix(req[r].request.Path, Policy(r).SecretPathPrefix)

\* the store calls of the request, by operation
CallsOf(r, op) == {i \in 1..Len(req[r].calls) : req[r].calls[i].op = op}

\* the existence query of the request came back without error and found a
\* live session under the key of (hostname, client IP)
SawSession(r) ==
    \E i \in CallsOf(r, "exists") :
        /\ ~req[r].calls[i].err
        /\ req[r].calls[i].owner # <<>>
        /\ req[r].calls[i].key = cacheKey(WantHost(r), WantIP(r))

\* C1: a request for a mapped hostname is handed to the forwarder only if its
\* client IP is allow-listed or its existence query for the key of (hostname,
\* client IP) succeeded and reported a session; without either it is never
\* forwarded.
C1_ForwardedOnlyIfUnlocked ==
    \A r \in Active :
        req[r].forwarded => Mapped(r) /\ (AllowListed(r) \/ SawSession(r))

\* a request was forwarded on the strength of a session, not of the allow-list
C1_Witness ==
    \E r \in Answered : req[r].forwarded /\ ~AllowListed(r) /\ SawSession(r)

\* C2: once the session of (host, ip) exists, every request from ip to host
\* whose existence query succeeds while the session is live is forwarded,
\* whatever its path and User-Agent; it is never answered 403, 302 or 500.
C2_LiveSessionForwards ==
    \A r \in Active :
        SawSession(r) =>
            /\ req[r].pc \in {"expire", "done"}
            /\ req[r].pc = "done" => req[r].forwarded /\ req[r].status = 0

\* a browser came back to the secret path with a live session and was forwarded
C2_Witness ==
    \E r \in Answered :
        /\ SawSession(r) /\ req[r].forwarded
        /\ OnSecretPath(r) /\ IsBrowser(req[r].request.UserAgent)

\* the existence query came back without error and reported no session
SawNone(r) ==
    \E i \in CallsOf(r, "exists") : ~req[r].calls[i].err /\ req[r].calls[i].owner = <<>>

\* the setWithExpiry of the request came back without error
SetOk(r) == \E i \in CallsOf(r, "set") : ~req[r].calls[i].err

\* the request path after the secret prefix
Rest(r) ==
    SubSeq(req[r].request.Path, Len(Policy(r).SecretPathPrefix) + 1,
           Len(req[r].request.Path))

\* the session of the request's (hostname, client IP) is live with a full TTL
FullSession(r) ==
    LET key == cacheKey(WantHost(r), WantIP(r))
    IN  /\ TTL(store, key) = Policy(r).SessionTTL
        /\ Owner(store, key) = <<WantHost(r), WantIP(r)>>

\* a first visit of a browser to the secret path whose grant succeeded
BrowserGrant(r) ==
    /\ Mapped(r) /\ ~AllowListed(r) /\ SawNone(r) /\ OnSecretPath(r)
    /\ browserRegex(req[r].request.UserAgent)
    /\ ~Contains(ToLower(req[r].request.UserAgent), android)
    /\ SetOk(r)

\* C3 as stated: the first browser visit to the secret path creates the
\* session with the application's TTL and is answered 302 with Location equal
\* to the request path with the prefix removed, "/" when nothing remains; it
\* is not forwarded.
C3_Original ==
    \A r \in Answered :
        BrowserGrant(r) =>
            /\ req[r].status = StatusFound /\ ~req[r].forwarded
            /\ FullSession(r)
            /\ req[r].Location = IF Rest(r) = <<>> THEN <<"/">> ELSE Rest(r)

\* C3 amended: the first browser visit to the secret path creates the session
\* with the application's TTL and is answered 302, not forwarded; Location is
\* "/" when nothing remains after the prefix, the remainder when it begins
\* with "/", and otherwise the remainder appended to the directory of the
\* request path.
C3_BrowserGrantRedirects ==
    \A r \in Answered :
        BrowserGrant(r) =>
            /\ req[r].status = StatusFound /\ ~req[r].forwarded
            /\ FullSession(r)
            /\ req[r].Location =
                  IF Rest(r) = <<>> THEN <<"/">>
                  ELSE IF Head(Rest(r)) = "/" THEN Rest(r)
                  ELSE SubSeq(req[r].request.Path, 1,
                              LastIndex(req[r].request.Path, "/")) \o Rest(r)

\* a browser was redirected after a grant whose prefix ended inside a segment
C3_Witness ==
    \E r \in Answered :
        /\ BrowserGrant(r) /\ req[r].status = StatusFound
        /\ Rest(r) # <<>> /\ Head(Rest(r)) # "/"

C5_Step ==
    [][ \A r \in Reqs :
          /\ req[r].pc = "exists" /\ req'[r].pc # "exists"
          /\ ~HasPrefix(req[r].request.Path, apps[req[r].hostname].SecretPathPrefix)
          /\ \E i \in 1..Len(req'[r].calls) :
                /\ req'[r].calls[i].op = "exists"
                /\ ~req'[r].calls[i].err /\ req'[r].calls[i].owner = <<>>
          => /\ req'[r].pc = "done"
             /\ req'[r].status = StatusForbidden /\ ~req'[r].forwarded
             /\ Len(req'[r].calls) = 1
             /\ store' = store ]_vars

\* a request off the secret path without a session was answered 403
C5_Witness ==
    \E r \in Answered :
        /\ Mapped(r) /\ ~AllowListed(r) /\ SawNone(r) /\ ~OnSecretPath(r)
        /\ req[r].status = StatusForbidden /\ Len(req[r].calls) = 1

\* the configuration record of a hostname
ConfigOf(hostname) ==
    AppsConfig[CHOOSE i \in 1..Len(AppsConfig) : AppsConfig[i].hostname = hostname]

\* the request is for a configured hostname and one of the allow_ips entries
\* of its record occurs in the client IP
ConfigAllows(q) ==
    /\ \E i \in 1..Len(AppsConfig) : AppsConfig[i].hostname = HostnameOf(q.Host)
    /\ ConfigOf(HostnameOf(q.Host)).allow_ips # <<>>
    /\ \E i \in 1..Len(Split(ConfigOf(HostnameOf(q.Host)).allow_ips, ",")) :
          Contains(clientIP(q),
                   TrimSpace(Split(ConfigOf(HostnameOf(q.Host)).allow_ips, ",")[i]))

\* C6: a request whose client IP matches an allow pattern of its application
\* is forwarded without any store call, on every path, and leaves the store
\* as it was.
C6_Step ==
    [][ \A r \in Reqs :
          /\ req[r].pc = "idle" /\ req'[r].pc # "idle"
          /\ ConfigAllows(req'[r].request)
          => /\ req'[r].pc = "done"
             /\ req'[r].forwarded /\ req'[r].status = 0
             /\ req'[r].calls = <<>>
             /\ store' = store ]_vars

\* an allow-listed client asked for the secret path and was forwarded
C6_Witness ==
    \E r \in Answered :
        /\ ConfigAllows(req[r].request) /\ OnSecretPath(r)
        /\ req[r].forwarded /\ req[r].calls = <<>>

\* C7: a request whose Host, port stripped, is not in the registry is answered
\* 404, issues no store call and is not forwarded.
C7_UnmappedHostNotFound ==
    \A r \in Active :
        ~Mapped(r) =>
            /\ req[r].pc = "done"
            /\ req[r].status = StatusNotFound /\ ~req[r].forwarded
            /\ req[r].calls = <<>>

\* a request for an unmapped host was answered 404 while a session was live
C7_Witness ==
    \E r \in Answered :
        ~Mapped(r) /\ req[r].status = StatusNotFound /\ DOMAIN store # {}

\* C8 as stated: with a live session the request is forwarded with the secret
\* prefix removed from the front of its path, "/" when nothing remains, and a
\* path that does not start with the prefix is forwarded unchanged.
C8_Original ==
    \A r \in Answered :
        Mapped(r) /\ ~AllowListed(r) /\ SawSession(r) =>
            /\ req[r].forwarded
            /\ req[r].Path =
                  IF OnSecretPath(r)
                  THEN (IF Rest(r) = <<>> THEN <<"/">> ELSE Rest(r))
                  ELSE req[r].request.Path

\* C8 amended: as stated, except that an empty path, which does not start
\* with the prefix, is forwarded as "/".
C8_ForwardedPathStripped ==
    \A r \in Answered :
        Mapped(r) /\ ~AllowListed(r) /\ SawSession(r) =>
            /\ req[r].forwarded
            /\ req[r].Path =
                  IF OnSecretPath(r)
                  THEN (IF Rest(r) = <<>> THEN <<"/">> ELSE Rest(r))
                  ELSE IF req[r].request.Path = <<>> THEN <<"/">>
                  ELSE req[r].request.Path

\* a request without a path was forwarded as "/" on a live session
C8_Witness ==
    \E r \in Answered :
        /\ Mapped(r) /\ ~AllowListed(r) /\ SawSession(r) /\ req[r].forwarded
        /\ req[r].request.Path = <<>> /\ req[r].Path = <<"/">>

\* the refreshExpiry calls of the request with the key and TTL of its session
Refreshes(r) ==
    {i \in CallsOf(r, "expire") :
        /\ req[r].calls[i].key = cacheKey(WantHost(r), WantIP(r))
        /\ req[r].calls[i].ttl = Policy(r).SessionTTL}

\* C9 as stated: with autoRenew a request forwarded on a session issues
\* refreshExpiry(key, sessionTTL) first, so that the session's remaining TTL
\* is the full sessionTTL; without autoRenew no refreshExpiry is ever issued.
C9_Original ==
    \A r \in Active :
        /\ Mapped(r) /\ ~Policy(r).AutoRenew => CallsOf(r, "expire") = {}
        /\ Mapped(r) /\ Policy(r).AutoRenew /\ ~AllowListed(r)
              /\ req[r].pc = "done" /\ req[r].forwarded
           => /\ Refreshes(r) # {}
              /\ TTL(store, cacheKey(WantHost(r), WantIP(r))) = Policy(r).SessionTTL

\* C9 amended: with autoRenew a request forwarded on a session issues
\* refreshExpiry(key, sessionTTL) first; when that call succeeds on a session
\* that is still live, the remaining TTL is the full sessionTTL.  Without
\* autoRenew no refreshExpiry is ever issued.
C9_RenewOnForward ==
    \A r \in Active :
        /\ Mapped(r) /\ ~Policy(r).AutoRenew => CallsOf(r, "expire") = {}
        /\ Mapped(r) /\ Policy(r).AutoRenew /\ ~AllowListed(r)
              /\ req[r].pc = "done" /\ req[r].forwarded
           => /\ Refreshes(r) # {}
              /\ \A i \in Refreshes(r) :
                    ~req[r].calls[i].err /\ req[r].calls[i].owner # <<>>
                    => TTL(store, cacheKey(WantHost(r), WantIP(r)))
                          = Policy(r).SessionTTL

\* a forwarded request renewed its live session to the full TTL
C9_Witness ==
    \E r \in Answered :
        /\ Mapped(r) /\ Policy(r).AutoRenew /\ req[r].forwarded
        /\ \E i \in Refreshes(r) : ~req[r].calls[i].err /\ req[r].calls[i].owner # <<>>
        /\ TTL(store, cacheKey(WantHost(r), WantIP(r))) = Policy(r).SessionTTL

\* C10: distinct (hostname, client IP) pairs have distinct store keys, and a
\* request is granted only on a session created for its own (hostname, client
\* IP): a session of (hostA, ip) never lets a request from ip to hostB through.
C10_SessionsIsolated ==
    /\ \A r1, r2 \in {r \in Active : req[r].cacheKey # <<>>} :
          <<WantHost(r1), WantIP(r1)>> # <<WantHost(r2), WantIP(r2)>>
          => req[r1].cacheKey # req[r2].cacheKey
    /\ \A r \in Active :
          /\ \A i \in CallsOf(r, "exists") :
                req[r].calls[i].owner \in {<<>>, <<WantHost(r), WantIP(r)>>}
          /\ req[r].forwarded /\ ~AllowListed(r)
             => \E i \in CallsOf(r, "exists") :
                   req[r].calls[i].owner = <<WantHost(r), WantIP(r)>>

\* a request was denied on one host while the same IP held a live session on
\* another mapped host
C10_Witness ==
    \E r \in Answered :
        /\ Mapped(r) /\ req[r].status = StatusForbidden /\ SawNone(r)
        /\ \E h \in DOMAIN apps :
              /\ h # WantHost(r)
              /\ Owner(store, cacheKey(h, WantIP(r))) = <<h, WantIP(r)>>

\* the setWithExpiry of the request came back with an error
SetFailed(r) == \E i \in CallsOf(r, "set") : req[r].calls[i].err

\* C11: when setWithExpiry fails during a grant attempt the request is
\* answered 500 and ends there: it is not redirected, not denied, not
\* forwarded, and no refreshExpiry is issued.
C11_SetFailureIsFatal ==
    \A r \in Active :
        SetFailed(r) =>
            /\ req[r].pc = "done"
            /\ req[r].status = StatusInternalServerError
            /\ req[r].Location = <<>> /\ ~req[r].forwarded
            /\ CallsOf(r, "expire") = {}
            /\ req[r].calls[Len(req[r].calls)].op = "set"

\* a browser's grant failed in the store and was answered 500
C11_Witness ==
    \E r \in Answered :
        /\ SetFailed(r) /\ req[r].status = StatusInternalServerError
        /\ IsBrowser(req[r].request.UserAgent)
        /\ cacheKey(WantHost(r), WantIP(r)) \notin DOMAIN store

\* the existence query of the request came back with an error
ExistsFailed(r) == \E i \in CallsOf(r, "exists") : req[r].calls[i].err

\* C12 as stated: a request whose existence query returns an error is denied
\* with 403 and never forwarded, on every path and User-Agent.
C12_Original ==
    \A r \in Answered :
        ExistsFailed(r) => req[r].status = StatusForbidden /\ ~req[r].forwarded

\* C12 amended: a request whose existence query returns an error is never
\* forwarded and issues no refreshExpiry.  Off the secret path it is denied
\* with 403 without a further store call; on the secret path the error reads
\* as "no session", setWithExpiry is issued, and the answer is 500 when that
\* fails, 302 when it succeeds for a browser and 403 otherwise.
C12_ExistsErrorNeverForwards ==
    \A r \in Active :
        ExistsFailed(r) =>
            /\ ~req[r].forwarded /\ CallsOf(r, "expire") = {}
            /\ req[r].pc \in {"set", "done"}
            /\ req[r].pc = "set" => OnSecretPath(r)
            /\ req[r].pc = "done" =>
                  IF ~OnSecretPath(r)
                  THEN req[r].status = StatusForbidden /\ Len(req[r].calls) = 1
                  ELSE /\ CallsOf(r, "set") # {}
                       /\ req[r].status =
                             IF SetFailed(r) THEN StatusInternalServerError
                             ELSE IF IsBrowser(req[r].request.UserAgent) THEN StatusFound
                             ELSE StatusForbidden

\* the store failed to answer for a client with a live session, on an
\* application with autoRenew: the request was denied
C12_Witness ==
    \E r \in Answered :
        /\ ExistsFailed(r) /\ req[r].status = StatusForbidden
        /\ Policy(r).AutoRenew /\ ~OnSecretPath(r)
        /\ cacheKey(WantHost(r), WantIP(r)) \in DOMAIN store

\* the path the upstream is to see for the request, read off the request
ExpectedPath(r) ==
    IF OnSecretPath(r)
    THEN (IF Rest(r) = <<>> THEN <<"/">> ELSE Rest(r))
    ELSE IF req[r].request.Path = <<>> THEN <<"/">> ELSE req[r].request.Path

\* C13: a request with an existing session on an application with autoRenew
\* issues refreshExpiry and is forwarded to the application's upstream with
\* the rewritten path; whether refreshExpiry failed does not enter.
C13_RenewFailureHarmless ==
    \A r \in Answered :
        (SawSession(r) /\ Policy(r).AutoRenew) \/ CallsOf(r, "expire") # {}
        => /\ CallsOf(r, "expire") # {}
           /\ req[r].forwarded /\ req[r].status = 0
           /\ req[r].upstream = Policy(r).UpstreamURL
           /\ req[r].Path = ExpectedPath(r)

\* refreshExpiry failed and the request was forwarded without the prefix
C13_Witness ==
    \E r \in Answered :
        /\ \E i \in CallsOf(r, "expire") : req[r].calls[i].err
        /\ req[r].forwarded /\ OnSecretPath(r) /\ Rest(r) # <<>>
        /\ req[r].Path = Rest(r)

\* C14: after a setWithExpiry that succeeded, also one issued although
\* another first request created the session in between, the store holds
\* exactly one session for the request's (hostname, client IP), under its
\* key, with the TTL of this last write.
C14_LastWriteWins ==
    \A r \in Answered :
        SetOk(r) =>
            /\ {k \in DOMAIN store : store[k].by = <<WantHost(r), WantIP(r)>>}
                  = {cacheKey(WantHost(r), WantIP(r))}
            /\ TTL(store, cacheKey(WantHost(r), WantIP(r))) = Policy(r).SessionTTL

\* two first requests raced: this one saw no session, and its setWithExpiry
\* arrived when the other's session was already live
C14_Witness ==
    \E r \in Answered :
        /\ SawNone(r) /\ FullSession(r)
        /\ \E i \in CallsOf(r, "set") :
              ~req[r].calls[i].err /\ req[r].calls[i].owner = <<WantHost(r), WantIP(r)>>

\* status and forwarding of an answered request as a function of the request,
\* the policy of its application and the store's responses to its own calls
OutcomeOf(r) ==
    IF AllowListed(r) \/ SawSession(r) THEN <<0, TRUE>>
    ELSE IF ~OnSecretPath(r) THEN <<StatusForbidden, FALSE>>
    ELSE IF SetFailed(r) THEN <<StatusInternalServerError, FALSE>>
    ELSE IF IsBrowser(req[r].request.UserAgent) THEN <<StatusFound, FALSE>>
    ELSE <<StatusForbidden, FALSE>>

\* C15: with instance 1 receiving every unlock link and the other instances
\* the rest, the other instances never create a session, yet each of them
\* forwards a request that finds the session live in the store; the answer
\* of every instance is the one function of request, policy and store
\* responses, whichever instance handles the request.
C15_InstancesShareSessions ==
    /\ \A r \in Reqs \ {1} : CallsOf(r, "set") = {}
    /\ \A r \in Answered :
          Mapped(r) =>
             /\ <<req[r].status, req[r].forwarded>> = OutcomeOf(r)
             /\ req[r].forwarded =>
                   /\ req[r].upstream = Policy(r).UpstreamURL
                   /\ req[r].Path = IF AllowListed(r) THEN req[r].request.Path
                                     ELSE ExpectedPath(r)

\* an instance that creates no sessions forwarded a request on a session,
\* which instance 1 must have created
C15_Witness ==
    \E r \in Answered :
        r # 1 /\ ~AllowListed(r) /\ SawSession(r) /\ req[r].forwarded

\* C16: no step of a handler removes a session from the store: a key leaves
\* the store only in a step of the store's clock, when its TTL has run out.
C16_Step ==
    [][ \A k \in DOMAIN store :
          k \notin DOMAIN store' => store[k].ttl = 1 /\ req' = req ]_vars

\* a request saw its session live, and by the time its refreshExpiry arrived
\* the session had expired; the renew did not bring it back
C16_Witness ==
    \E r \in Answered :
        /\ SawSession(r)
        /\ \E i \in CallsOf(r, "expire") : req[r].calls[i].owner = <<>>
        /\ cacheKey(WantHost(r), WantIP(r)) \notin DOMAIN store

\* C17 as stated: every forwarded request, allow-listed or not, reaches the
\* upstream with the secret prefix stripped from its path.
C17_Original ==
    \A r \in Answered :
        req[r].forwarded /\ OnSecretPath(r) => req[r].Path = ExpectedPath(r)

\* C17 amended: a request forwarded on a session has been through the path
\* rewrite; a request forwarded because its IP is allow-listed reaches the
\* upstream with path and raw path as received, secret prefix included.
C17_RewriteOnlyOnSessionPath ==
    \A r \in Answered :
        req[r].forwarded =>
            IF AllowListed(r)
            THEN /\ req[r].Path = req[r].request.Path
                 /\ req[r].RawPath = req[r].request.RawPath
            ELSE req[r].Path = ExpectedPath(r)

\* an allow-listed client asked for the secret path and the upstream saw the
\* prefix
C17_Witness ==
    \E r \in Answered :
        /\ AllowListed(r) /\ req[r].forwarded /\ OnSecretPath(r)
        /\ req[r].Path = req[r].request.Path
        /\ req[r].Path # ExpectedPath(r)

\* p without the leading pre when p begins with pre, p itself otherwise
Stripped(p, pre) ==
    IF Len(p) >= Len(pre) /\ \A i \in 1..Len(pre) : p[i] = pre[i]
    THEN [i \in 1..(Len(p) - Len(pre)) |-> p[i + Len(pre)]]
    ELSE p

\* the request was forwarded on the strength of a session
SessionForwarded(r) ==
    r \in Answered /\ Mapped(r) /\ ~AllowListed(r) /\ req[r].forwarded

\* C18 as stated: path and raw path are stripped of the prefix independently
\* and whichever of the two is empty afterwards is set to "/".
C18_Original ==
    \A r \in Reqs :
        SessionForwarded(r) =>
            LET pre  == Policy(r).SecretPathPrefix
                path == Stripped(req[r].request.Path, pre)
                raw  == Stripped(req[r].request.RawPath, pre)
            IN  /\ req[r].Path = IF path = <<>> THEN <<"/">> ELSE path
                /\ req[r].RawPath = IF raw = <<>> THEN <<"/">> ELSE raw

\* C18 amended: path and raw path are stripped of the prefix independently;
\* a path that is empty afterwards is set to "/", and a raw path that is
\* empty afterwards, or was absent, is set to the rewritten path.
C18_RawPathFollowsPath ==
    \A r \in Reqs :
        SessionForwarded(r) =>
            LET pre  == Policy(r).SecretPathPrefix
                path == Stripped(req[r].request.Path, pre)
                raw  == Stripped(req[r].request.RawPath, pre)
            IN  /\ req[r].Path = IF path = <<>> THEN <<"/">> ELSE path
                /\ req[r].RawPath = IF raw = <<>> THEN req[r].Path ELSE raw

\* a percent-encoded request was forwarded with both forms stripped
C18_Witness ==
    \E r \in Reqs :
        /\ SessionForwarded(r) /\ OnSecretPath(r)
        /\ req[r].request.RawPath # <<>>
        /\ req[r].RawPath # req[r].Path /\ req[r].RawPath # req[r].request.RawPath

\* C19: for a request path that starts with the secret prefix, the prefix
\* followed by the stripped path is the request path again, except that a path
\* equal to the prefix is forwarded as "/".
C19_StripRoundTrip ==
    \A r \in Reqs :
        SessionForwarded(r) /\ OnSecretPath(r) =>
            IF req[r].request.Path = Policy(r).SecretPathPrefix
            THEN req[r].Path = <<"/">>
            ELSE Policy(r).SecretPathPrefix \o req[r].Path = req[r].request.Path

\* a path with something after the prefix went through the rewrite
C19_Witness ==
    \E r \in Reqs :
        /\ SessionForwarded(r) /\ OnSecretPath(r)
        /\ req[r].request.Path # Policy(r).SecretPathPrefix
        /\ Len(req[r].Path) < Len(req[r].request.Path)
        /\ Policy(r).SecretPathPrefix \o req[r].Path = req[r].request.Path

\* the value up to its first comma
FirstElement(v) ==
    IF \E i \in 1..Len(v) : v[i] = ","
    THEN LET i == CHOOSE i \in 1..Len(v) : v[i] = "," /\ \A j \in 1..(i - 1) : v[j] # ","
         IN  [j \in 1..(i - 1) |-> v[j]]
    ELSE v

\* blank, tab, line feed, carriage return
WhiteSpace == {" ", "\t", "\n", "\r"}

\* x is e without the white space around it
IsTrimOf(x, e) ==
    /\ x = <<>> \/ (x[1] \notin WhiteSpace /\ x[Len(x)] \notin WhiteSpace)
    /\ \E i \in 0..Len(e) :
          /\ i + Len(x) <= Len(e)
          /\ \A j \in 1..Len(e) :
                IF j > i /\ j <= i + Len(x) THEN e[j] = x[j - i]
                ELSE e[j] \in WhiteSpace

\* the peer address up to the colon before the port, brackets removed
PeerHost(addr) ==
    LET c == CHOOSE i \in 1..Len(addr) : addr[i] = ":" /\ \A j \in (i + 1)..Len(addr) : addr[j] # ":"
    IN  IF addr[1] = "[" THEN [j \in 1..(c - 3) |-> addr[j + 1]]
        ELSE [j \in 1..(c - 1) |-> addr[j]]

\* the header clientIP is to answer from: the first of the seven, in the
\* documented order, whose value is not empty; "" when there is none
Chosen(h) ==
    IF h["CF-Connecting-IP"] # <<>> THEN "CF-Connecting-IP"
    ELSE IF h["True-Client-IP"] # <<>> THEN "True-Client-IP"
    ELSE IF h["X-Real-IP"] # <<>> THEN "X-Real-IP"
    ELSE IF h["X-Forwarded-For"] # <<>> THEN "X-Forwarded-For"
    ELSE IF h["X-Cluster-Client-IP"] # <<>> THEN "X-Cluster-Client-IP"
    ELSE IF h["Fastly-Client-IP"] # <<>> THEN "Fastly-Client-IP"
    ELSE IF h["Forwarded"] # <<>> THEN "Forwarded"
    ELSE ""

\* C20: clientIP returns the first comma-separated element, blanks trimmed,
\* of the first non-empty header in the order CF-Connecting-IP,
\* True-Client-IP, X-Real-IP, X-Forwarded-For, X-Cluster-Client-IP,
\* Fastly-Client-IP, Forwarded; with all seven empty it returns the peer
\* address without its port.
C20_ClientIP ==
    \A r \in Answered :
        LET q == req[r].request
        IN  IF Chosen(q.Header) = ""
            THEN req[r].ip = PeerHost(q.RemoteAddr)
            ELSE IsTrimOf(req[r].ip, FirstElement(q.Header[Chosen(q.Header)]))

\* two headers carried values: the earlier one won, and of its list the first
\* element, trimmed, was returned
C20_Witness ==
    \E r \in Answered :
        LET q == req[r].request
        IN  /\ Cardinality({h \in HeaderNames : q.Header[h] # <<>>}) = 2
            /\ q.Header["X-Real-IP"] = <<" ", "5", " ", ",", "6">>
            /\ q.Header["X-Forwarded-For"] # <<>>
            /\ req[r].ip = <<"5">>

\* the records of the configuration method in use
Records == IF os.environ.APPS_CONFIG.set THEN os.environ.APPS_CONFIG.doc ELSE os.environ.APP

\* the value a record gives to a field, "" when it does not specify it
Field(rec, json, numbered) ==
    IF os.environ.APPS_CONFIG.set THEN Get(rec, json) ELSE Get(rec, numbered)

\* the record the application of hostname h was built from: the last for h
RecordOf(h) ==
    Records[CHOOSE i \in 1..Len(Records) :
                /\ Field(Records[i], "hostname", "HOSTNAME") = h
                /\ \A j \in (i + 1)..Len(Records) :
                      Field(Records[j], "hostname", "HOSTNAME") # h]

secret_path == <<"/", "s", "e", "c", "r", "e", "t", "_", "p", "a", "t", "h">>

\* C23: every application in the registry of a serving process has a
\* non-empty secretPathPrefix, and it is "/secret_path" when the record does
\* not specify one.
C23_SecretPathDefault ==
    os.pc = "serve" =>
        \A h \in DOMAIN apps :
            /\ apps[h].SecretPathPrefix # <<>>
            /\ Field(RecordOf(h), "secret_path", "SECRET_PATH") = <<>>
                  => apps[h].SecretPathPrefix = secret_path

\* C24: every application in the registry of a serving process has a
\* positive sessionTTL, 10m when the record does not specify one, and a
\* process with a record whose session_ttl is zero or negative does not serve.
C24_SessionTTLPositive ==
    os.pc = "serve" =>
        /\ \A h \in DOMAIN apps :
              /\ apps[h].SessionTTL > 0
              /\ Field(RecordOf(h), "session_ttl", "SESSION_TTL") = <<>>
                    => apps[h].SessionTTL = 10
        /\ \A i \in 1..Len(Records) :
              Field(Records[i], "session_ttl", "SESSION_TTL")
                  \notin {<<"0">>, <<"-", "2", "m">>}

\* C25: an application whose record does not specify auto_renew has
\* autoRenew = true.
C25_AutoRenewDefault ==
    os.pc = "serve" =>
        \A h \in DOMAIN apps :
            Field(RecordOf(h), "auto_renew", "AUTO_RENEW") = <<>> => apps[h].AutoRenew

-----------------------------------------------------------------------------
\* the Host header is the registered name n itself or n followed by ":port"
Names(h, n) == h = n \/ HasPrefix(h, n \o <<":">>)

\* the registered names the Host header of the request names
NamedBy(r) == {n \in DOMAIN apps : Names(req[r].request.Host, n)}

\* C21: the application of a request is found by exact, case-sensitive lookup
\* of the Host header with any ":port" suffix removed: a Host equal to a
\* registered hostname, with or without a port, resolves to that application;
\* a Host that differs in letter case, or matches a registered name only as a
\* wildcard or as a substring, is answered not-found.
C21_ExactHostLookup ==
    \A r \in Active :
        IF NamedBy(r) = {}
        THEN req[r].status = StatusNotFound /\ ~req[r].forwarded
        ELSE /\ NamedBy(r) = {req[r].hostname}
             /\ req[r].status # StatusNotFound
             /\ req[r].forwarded => req[r].upstream = apps[req[r].hostname].UpstreamURL

\* a Host with a port that differs from a registered name only in letter case
\* was answered not-found
C21_Witness ==
    \E r \in Answered :
        /\ req[r].request.Host = <<"A", ":", "8">>
        /\ req[r].status = StatusNotFound

-----------------------------------------------------------------------------
\* the allow_ips entries, trimmed, of the configuration record of a hostname
PatternsOf(h) ==
    LET rec == RoutingConfig[CHOOSE i \in 1..Len(RoutingConfig) :
                                 RoutingConfig[i].hostname = h]
    IN  IF "allow_ips" \notin DOMAIN rec THEN {}
        ELSE {TrimSpace(Split(rec.allow_ips, ",")[i]) :
                 i \in 1..Len(Split(rec.allow_ips, ","))}

\* a string made only of digits and dots
DigitsAndDots(s) == \A i \in 1..Len(s) : IsDigit(s[i]) \/ s[i] = "."

\* the request went to the upstream on the strength of the allow-list alone
AllowedThrough(r) ==
    req[r].pc = "done" /\ req[r].forwarded /\ req[r].calls = <<>>

-----------------------------------------------------------------------------
\* C26: once serving has begun the registry is unchanged by request handling:
\* no step of any request, whatever its outcome, adds, removes or modifies an
\* entry of the registry or a field of an application's policy.
C26_Step ==
    [][ os.pc = "serve" => /\ apps' = apps
                           /\ os'.pc = "serve" ]_vars

\* a request for a hostname the registry lacks was answered while a session
\* of another request is live, and the registry is the one main loaded
C26_Witness ==
    /\ \E r \in Answered : req[r].status = StatusNotFound
    /\ DOMAIN store # {}
    /\ apps = loadAppConfigurations(os.environ).apps

-----------------------------------------------------------------------------
\* the operations of the store calls of the request, in the order issued
OpsOf(r) == [i \in 1..Len(req[r].calls) |-> req[r].calls[i].op]

\* C27: the store calls of one request are none (unmapped host or allow-listed
\* IP), [exists], [exists, set] or [exists, expire]: exists comes first, no
\* call is issued twice, and never more than three; a request still in flight
\* has issued a prefix of one of these, and a mapped request that is not
\* allow-listed always issues exists.
C27_CallSequences ==
    \A r \in Active :
        /\ req[r].pc = "exists" => OpsOf(r) = <<>>
        /\ req[r].pc \in {"set", "expire"} => OpsOf(r) = <<"exists">>
        /\ req[r].pc = "done" =>
              /\ OpsOf(r) \in { <<>>, <<"exists">>, <<"exists", "set">>,
                                <<"exists", "expire">> }
              /\ OpsOf(r) = <<>> <=> ~Mapped(r) \/ AllowListed(r)
        /\ \A i \in 1..Len(req[r].calls) :
              req[r].calls[i].key = cacheKey(WantHost(r), WantIP(r))

\* a client that is not a browser was granted a session on the secret path of
\* an auto-renewing application: exists, then set, and no renewal after it
C27_Witness ==
    \E r \in Answered :
        /\ OpsOf(r) = <<"exists", "set">>
        /\ SetOk(r) /\ Policy(r).AutoRenew
        /\ ~IsBrowser(req[r].request.UserAgent)
        /\ req[r].status = StatusForbidden

-----------------------------------------------------------------------------
\* the request is one the grant is for: mapped host, IP not allow-listed, path
\* under the secret prefix, and no session reported by its existence query
GrantDue(r) ==
    /\ Mapped(r) /\ ~AllowListed(r)
    /\ OnSecretPath(r)
    /\ ~SawSession(r)

\* C30: a request issues setWithExpiry exactly when it is for a mapped host
\* from an IP that is not allow-listed, its path starts with the secret prefix
\* and its existence query did not report a session; a query that failed
\* counts as "no session", so the grant is attempted, and can overwrite the
\* TTL of a live session, when the query returned an error.
C30_SetExactlyWhenGrantDue ==
    \A r \in Active :
        /\ req[r].pc = "set" => GrantDue(r) /\ CallsOf(r, "set") = {}
        /\ req[r].pc = "expire" => ~GrantDue(r) /\ CallsOf(r, "set") = {}
        /\ req[r].pc = "done" => (CallsOf(r, "set") # {} <=> GrantDue(r))
        /\ \A i \in CallsOf(r, "set") :
              /\ req[r].calls[i].key = cacheKey(WantHost(r), WantIP(r))
              /\ req[r].calls[i].ttl = Policy(r).SessionTTL

\* the existence query failed while a session was live and the grant that
\* followed wrote over that session
C30_Witness ==
    \E r \in Answered :
        /\ \E i \in CallsOf(r, "exists") :
              req[r].calls[i].err /\ req[r].calls[i].owner # <<>>
        /\ \E i \in CallsOf(r, "set") :
              ~req[r].calls[i].err /\ req[r].calls[i].owner # <<>>
        /\ FullSession(r)

-----------------------------------------------------------------------------
\* the live sessions of applications whose autoRenew is false
FixedSessions == {k \in DOMAIN store : ~apps[store[k].by[1]].AutoRenew}

\* C29 as stated: with autoRenew false the expiry of a live session is never
\* moved later by any request, be it an ordinary request, a repeat visit to
\* the secret path, a request whose existence query fails or a concurrent one.
C29_Original ==
    [][ \A k \in FixedSessions :
          k \in DOMAIN store' => store'[k].ttl <= store[k].ttl ]_vars

\* C29 amended: with autoRenew false no refreshExpiry is issued, and the
\* expiry of a live session is moved later only by a setWithExpiry that
\* succeeds, issued by a request on the secret path whose existence query
\* failed or reported no session; the session then has the full sessionTTL.
\* A request that saw the session never extends it.
C29_Step ==
    [][ /\ \A k \in FixedSessions :
             k \in DOMAIN store' /\ store'[k].ttl > store[k].ttl =>
                \E r \in Reqs :
                    /\ req[r].pc = "set" /\ req'[r].pc = "done"
                    /\ req[r].cacheKey = k
                    /\ OnSecretPath(r) /\ ~SawSession(r)
                    /\ OpsOf(r) = <<"exists">>
                    /\ store'[k].ttl = Policy(r).SessionTTL
        /\ \A r \in Reqs :
             req[r].pc # "idle" /\ Mapped(r) /\ ~Policy(r).AutoRenew =>
                req'[r].pc # "expire" ]_vars

\* a repeat visit to the secret path of an application without autoRenew saw
\* its session, was forwarded, and left the session's TTL run down as it was
C29_Witness ==
    \E r \in Answered :
        /\ Mapped(r) /\ ~Policy(r).AutoRenew
        /\ OnSecretPath(r) /\ SawSession(r) /\ req[r].forwarded
        /\ TTL(store, req[r].cacheKey) > 0
        /\ TTL(store, req[r].cacheKey) < Policy(r).SessionTTL

-----------------------------------------------------------------------------
\* the request ended in exactly one of the five outcomes
OneOutcome(r) ==
    \/ /\ req[r].forwarded /\ req[r].status = 0
       /\ req[r].upstream # <<>> /\ req[r].Location = <<>>
    \/ /\ ~req[r].forwarded /\ req[r].upstream = <<>>
       /\ req[r].status \in {StatusNotFound, StatusForbidden,
                             StatusInternalServerError, StatusFound}
       /\ req[r].status = StatusFound <=> req[r].Location # <<>>

\* the handler holds a request whose answer has not been decided
InFlight(r) == req[r].pc \in {"exists", "set", "expire"}

\* C28: provided each store call returns, with a value or an error, every
\* request terminates, in exactly one outcome among 404, 403, 500, 302 and
\* forwarded to the upstream; a handler that has answered keeps nothing of
\* the request, so that the next request starts from the request itself, the
\* registry and the sessions in the store.
C28_Terminates ==
    /\ \A r \in Reqs : InFlight(r) ~> (req[r].pc = "done")
    /\ [](\A r \in Answered : OneOutcome(r))
    /\ [](\A r \in Reqs : req[r].pc = "idle" => req[r] = Idle)
    /\ [](\A r \in Answered :
             Mapped(r) => <<req[r].status, req[r].forwarded>> = OutcomeOf(r))

\* a request whose three store results were all errors or misses ended, with
\* one outcome: its renewal failed and it was forwarded all the same
C28_Witness ==
    \E r \in Answered :
        /\ OneOutcome(r) /\ req[r].forwarded
        /\ \E i \in CallsOf(r, "expire") : req[r].calls[i].err

-----------------------------------------------------------------------------
\* a browser asks for a path under the secret prefix of a mapped application
\* from an IP that is not allow-listed
BrowserOnSecretPath(r) ==
    /\ Mapped(r) /\ ~AllowListed(r)
    /\ OnSecretPath(r)
    /\ IsBrowser(req[r].request.UserAgent)

\* the session of the request's key was live when its existence query arrived
SessionExisted(r) ==
    \E i \in CallsOf(r, "exists") : req[r].calls[i].owner # <<>>

\* forwarded with the prefix stripped, no session written, and no store write
\* but a refreshExpiry under autoRenew
ForwardedOnSession(r) ==
    /\ req[r].forwarded /\ req[r].status = 0 /\ req[r].Location = <<>>
    /\ req[r].Path = ExpectedPath(r)
    /\ CallsOf(r, "set") = {}
    /\ CallsOf(r, "expire") # {} <=> Policy(r).AutoRenew

\* C31 as stated: a browser request to a path under the secret prefix from an
\* IP whose session already exists is not redirected and does not re-create
\* the session; it is forwarded with the prefix stripped, and its only store
\* write is refreshExpiry when autoRenew is true.
C31_Original ==
    \A r \in Answered :
        SessionExisted(r) /\ BrowserOnSecretPath(r) => ForwardedOnSession(r)

\* C31 amended: a browser request to a path under the secret prefix whose
\* existence query succeeds and reports the session is not redirected and
\* does not re-create the session; it is forwarded with the prefix stripped
\* ("/" when nothing remains), and its only store write is refreshExpiry,
\* issued exactly when autoRenew is true.
C31_RepeatVisitForwarded ==
    \A r \in Active :
        SawSession(r) /\ BrowserOnSecretPath(r) =>
            /\ CallsOf(r, "set") = {}
            /\ req[r].pc \in {"expire", "done"}
            /\ req[r].pc = "expire" => Policy(r).AutoRenew
            /\ req[r].pc = "done" => ForwardedOnSession(r)

\* a browser came back to the bare secret prefix with a live session of an
\* application without autoRenew: forwarded as "/", with no store write
C31_Witness ==
    \E r \in Answered :
        /\ BrowserOnSecretPath(r) /\ SawSession(r)
        /\ ~Policy(r).AutoRenew
        /\ Rest(r) = <<>>
        /\ ForwardedOnSession(r) /\ OpsOf(r) = <<"exists">>

-----------------------------------------------------------------------------
\* the last store call of the request is its own setWithExpiry, with the
\* given result
EndedOnSet(r, failed) ==
    /\ OpsOf(r) = <<"exists", "set">>
    /\ req[r].calls[2].key = cacheKey(WantHost(r), WantIP(r))
    /\ req[r].calls[2].err = failed

\* 302 only after the request's own setWithExpiry succeeded, 500 only after
\* it failed, and neither for an allow-listed request
OwnSetDecides(r) ==
    /\ req[r].status = StatusFound => EndedOnSet(r, FALSE)
    /\ req[r].status = StatusInternalServerError => EndedOnSet(r, TRUE)
    /\ req[r].status \in {StatusFound, StatusInternalServerError} =>
          Mapped(r) /\ ~AllowListed(r)

\* C32 as stated: 302 is produced only by a request whose own setWithExpiry
\* has just succeeded and 500 only by one whose own setWithExpiry failed; no
\* request with an existing session and no allow-listed request ever
\* receives 302 or 500.
C32_Original ==
    \A r \in Answered :
        /\ OwnSetDecides(r)
        /\ SessionExisted(r) =>
              req[r].status \notin {StatusFound, StatusInternalServerError}

\* C32 amended: 302 is produced only by a request whose own setWithExpiry
\* has just succeeded and 500 only by one whose own setWithExpiry failed; no
\* allow-listed request, and no request whose existence query succeeded and
\* reported a session, ever receives 302 or 500.
C32_RedirectAndFailureFollowSet ==
    \A r \in Answered :
        /\ OwnSetDecides(r)
        /\ SawSession(r) =>
              req[r].status \notin {StatusFound, StatusInternalServerError}

\* a request whose session was live received 500: its existence query had
\* failed, and then its own setWithExpiry failed
C32_Witness ==
    \E r \in Answered :
        /\ req[r].status = StatusInternalServerError
        /\ EndedOnSet(r, TRUE)
        /\ SessionExisted(r) /\ req[r].calls[1].err

-----------------------------------------------------------------------------
\* C33: refreshExpiry never creates a session.  A request whose existence
\* query reported its session is forwarded when its refreshExpiry returns,
\* also when the session has expired in between, and the store then holds
\* the keys it held before: no session exists for the key.  A request off the
\* secret path whose existence query then finds the key missing is answered
\* 403 and leaves the key missing.
C33_Step ==
    [][ \A r \in Reqs :
          /\ req[r].pc = "expire" /\ req'[r].pc # "expire" =>
                /\ req'[r].pc = "done"
                /\ req'[r].forwarded /\ req'[r].status = 0
                /\ DOMAIN store' = DOMAIN store
          /\ /\ req[r].pc = "exists" /\ req'[r].pc # "exists"
             /\ req[r].cacheKey \notin DOMAIN store
             /\ ~HasPrefix(req[r].request.Path, apps[req[r].hostname].SecretPathPrefix)
             => /\ req'[r].pc = "done"
                /\ req'[r].status = StatusForbidden /\ ~req'[r].forwarded
                /\ req[r].cacheKey \notin DOMAIN store' ]_vars

\* the session expired between the existence query and the refreshExpiry of
\* a request, which was forwarded; no session exists now, and the next
\* request of that IP, off the secret path, waits for its existence query
C33_Witness ==
    \E r \in Answered :
        /\ SawSession(r) /\ req[r].forwarded
        /\ \E i \in CallsOf(r, "expire") :
              ~req[r].calls[i].err /\ req[r].calls[i].owner = <<>>
        /\ req[r].cacheKey \notin DOMAIN store
        /\ \E o \in Reqs :
              /\ req[o].pc = "exists"
              /\ req[o].cacheKey = req[r].cacheKey
              /\ ~OnSecretPath(o)

-----------------------------------------------------------------------------
\* C34: a request is allow-listed only by a non-empty configured pattern: an
\* element of allow_ips that is empty after splitting on commas and trimming
\* does not cause an IP that matches no other pattern to be forwarded
\* without a session.
C34_EmptyPatternAllowsNothing ==
    \A r \in Active :
        NamedBy(r) # {} /\ AllowedThrough(r) =>
            \E p \in PatternsOf(req[r].hostname) : p # <<>> /\ Contains(req[r].ip, p)

====
